---------------------------- MODULE Spec2Model ----------------------------
(***************************************************************************)
(* Model of the scripting integration layer of the game server:            *)
(*   src/src/scripting/lua.cpp   (LuaScript, the tmw callbacks, loadScript, *)
(*                                LuaRegister)                              *)
(* together with the simulation objects (Thing) whose raw addresses the    *)
(* scripts receive as light userdata, and the engine registry of           *)
(* scripting/script.cpp, which lua.cpp calls.                              *)
(*                                                                         *)
(* The server is single threaded: a script call runs to completion inside  *)
(* execute(), so while pc = "running" only the script itself takes steps.  *)
(* One Script instance is held at a time (variable script).                *)
(***************************************************************************)
EXTENDS Integers, Sequences, FiniteSets

(***************************** bounds **************************************)
\* Number of storage slots (addresses) in which Things are allocated.
NumSlots == 2
\* Number of Things the simulation creates in one run.
MaxOid == 2
\* Largest number of arguments pushed for one script call.
MaxArgs == 2
\* Item nodes in the item reference file.
MaxItems == 3
\* Item ids the item reference file uses.
NumItemIds == 2
\* Account objects the account server makes.
NumAccounts == 3
\* delete calls counted per account.
MaxDeletes == 2

(************************** program constants ******************************)
\* Status codes of lua_pcall and luaL_loadstring (0 is success).
LUA_ERRRUN == 2
LUA_ERRSYNTAX == 3
LUA_ERRMEM == 4

\* The null pointer.
NULL == 0

Addr == 1..NumSlots
\* Outcome of a pointer dereference that ends in a memory fault.
FAULT == NumSlots + 1

OBJECT_NPC == "OBJECT_NPC"
OBJECT_CHARACTER == "OBJECT_CHARACTER"
ThingTypes == {OBJECT_NPC, OBJECT_CHARACTER}

(***************************** Lua values **********************************)
\* A Lua value: its type tag t, a number n (the number, or the address of a
\* light userdata), a text s.  oid is a history field of a light userdata:
\* the identity of the Thing the address was taken from; the code keeps only
\* the address.
Val(t, n, s, oid) == [t |-> t, n |-> n, s |-> s, oid |-> oid]
None == Val("none", 0, "", 0)
Nil == Val("nil", 0, "", 0)
Num(i) == Val("number", i, "", 0)
Str(s) == Val("string", 0, s, 0)
Ptr(a, o) == Val("lightuserdata", a, "", o)
Fn(name) == Val("function", 0, name, 0)
Chunk == Val("function", 0, "chunk", 0)
Table == Val("table", 0, "tmw", 0)

\* Decimal texts of the numbers the model uses.
Numerals == <<"0", "1", "2", "3", "4", "5", "6", "7", "8", "9">>

\* lua_number2str on a small non-negative integer.
NumToStr(i) == IF i \in 0..9 THEN Numerals[i + 1] ELSE "number"

\* luaO_str2d: whether a text converts to a number, and the number.
StrIsNum(s) == \E i \in 0..9 : Numerals[i + 1] = s
StrToNum(s) == IF StrIsNum(s) THEN CHOOSE i \in 0..9 : Numerals[i + 1] = s ELSE 0

lua_islightuserdata(v) == v.t = "lightuserdata"

\* lua_isnumber: a number, or a string convertible to a number.
lua_isnumber(v) == v.t = "number" \/ (v.t = "string" /\ StrIsNum(v.s))

\* lua_tointeger: 0 when the value is not convertible.
lua_tointeger(v) ==
    IF v.t = "number" THEN v.n
    ELSE IF v.t = "string" THEN StrToNum(v.s)
    ELSE 0

\* lua_tolstring: the text of a string, the decimal text of a number,
\* otherwise NULL (modelled as the value None).
lua_tolstring(v) ==
    IF v.t = "string" THEN Str(v.s)
    ELSE IF v.t = "number" THEN Str(NumToStr(v.n))
    ELSE None

\* What lua_tostring leaves in the stack slot it reads: a number is
\* converted to a string in place, any other value stays as it is.
lua_tostring_slot(v) == IF v.t = "number" THEN Str(NumToStr(v.n)) ELSE v

\* lua_typename(lua_type(v)): a light userdata is named "userdata".
lua_typename(v) ==
    IF v.t = "none" THEN "no value"
    ELSE IF v.t = "lightuserdata" THEN "userdata"
    ELSE v.t

At(stack, i) == IF i \in 1..Len(stack) THEN stack[i] ELSE None

\* lua_pop(L, n).
lua_pop(stack, n) == SubSeq(stack, 1, Len(stack) - n)

(******************************* state *************************************)
VARIABLES
    heap,      \* storage of the simulation's Things, by address
    nextOid,   \* identity given to the next Thing created
    engines,   \* the engine registry: engine name -> loader
    dummy,     \* whether the static LuaRegister object has been constructed
    script,    \* the Script instance (LuaScript) held by the server
    leaked,    \* whether a lua_State was created and never closed or owned
    pc,        \* "startup", "idle", or "running" (inside lua_pcall of execute)
    proc,      \* "up", "aborted" (failed assert) or "fault" (memory fault)
    out,       \* what the last operation returned, logged and sent
    items,     \* ItemManager: itemClasses, the item class of each id
    nbItems,   \* ItemManager::reload: its count of loaded items
    reloading, \* whether ItemManager::reload is in its loop over the file
    client,    \* the AccountClient: "alive", "destroyed" or "fault"
    mAccount,  \* AccountClient::mAccount: address, and the Account it was for
    acctHeap,  \* storage of Account objects: address -> Account there, or 0
    nextAcct,  \* identity of the next Account the server makes
    given,     \* the accounts handed to setAccount so far
    deleted    \* per account, how many times it was destroyed by a delete

itemVars == <<items, nbItems, reloading>>
accountVars == <<client, mAccount, acctHeap, nextAcct, given, deleted>>
\* What the scripting layer leaves alone.
otherVars == <<itemVars, accountVars>>

vars == <<heap, nextOid, engines, dummy, script, leaked, pc, proc, out,
          items, nbItems, reloading, client, mAccount, acctHeap, nextAcct,
          given, deleted>>

FreeSlot == [live |-> FALSE, type |-> OBJECT_NPC, oid |-> 0]

\* A Script that does not exist (a null Script pointer).
NoScript ==
    [st |-> "none", nbArgs |-> -1, stack |-> <<>>, tmw |-> FALSE,
     defs |-> FALSE, held |-> {}, mState |-> "none", topErr |-> FALSE,
     tmwAtTop |-> FALSE, hist |-> <<>>]

\* A null Account pointer.  A pointer is an address and, for the record, the
\* Account it was made for.
NullAccount == [addr |-> NULL, id |-> 0]

\* No ItemClass under an id of itemClasses.
NoItem == [present |-> FALSE, found |-> FALSE, script |-> NULL,
           loaded |-> FALSE]

NoMsg == [kind |-> "none", npc |-> 0, to |-> 0, text |-> ""]

\* The observable result of one operation.
Out(op, ret, res, log, msg, args, who) ==
    [op |-> op, ret |-> ret, res |-> res, log |-> log, msg |-> msg,
     args |-> args, who |-> who, p |-> NULL, q |-> NULL,
     created |-> FALSE, closes |-> 0, tick |-> 0]

EngineNames == {"lua", "xs"}
\* The name another backend tries to register under.
ForeignNames == {"lua"}
Loaders == {"loadScript", "foreignLoader"}
FunctionNames == {"onTalk", "onMissing"}

\* Script files: whether the resource exists, the status luaL_loadstring
\* gives for its text, whether its top-level code runs without raising, and
\* whether it defines the global function onTalk.
File(exists, load, top, defs) ==
    [exists |-> exists, load |-> load, top |-> top, defs |-> defs]
Files ==
    { File(FALSE, 0, "ok", FALSE),
      File(TRUE, LUA_ERRSYNTAX, "ok", FALSE),
      File(TRUE, LUA_ERRMEM, "ok", FALSE),
      File(TRUE, 0, "err", FALSE),
      File(TRUE, 0, "err", TRUE),
      File(TRUE, 0, "ok", TRUE) }

\* Whether the Thing with identity o exists.
Live(o) == \E a \in Addr : heap[a].live /\ heap[a].oid = o

Init ==
    /\ heap = [a \in Addr |-> FreeSlot]
    /\ nextOid = 1
    /\ engines = [e \in EngineNames |-> "none"]
    /\ dummy = FALSE
    /\ script = NoScript
    /\ leaked = FALSE
    /\ pc = "startup"
    /\ proc = "up"
    /\ out = Out("init", 0, 0, <<>>, NoMsg, <<>>, "none")
    /\ items = [id \in 1..NumItemIds |-> NoItem]
    /\ nbItems = 0
    /\ reloading = FALSE
    /\ client = "alive"
    /\ mAccount = NullAccount
    /\ acctHeap = [a \in 1..NumAccounts |-> 0]
    /\ nextAcct = 1
    /\ given = {}
    /\ deleted = [a \in 1..NumAccounts |-> 0]

(*************************** engine registry *******************************)
\* Script::registerEngine(name, f): adds an entry; a name that is already
\* registered keeps its first loader and the registration fails.
registerEngine_overwrites(reg, name, loader) ==
    [engines |-> [reg EXCEPT ![name] = loader], ok |-> TRUE]

registerEngine(reg, name, loader) ==
    IF reg[name] = "none"
    THEN [engines |-> [reg EXCEPT ![name] = loader], ok |-> TRUE]
    ELSE [engines |-> reg, ok |-> FALSE]

\* Construction of the static object dummy: LuaRegister::LuaRegister().
LuaRegister ==
    /\ pc = "startup" /\ proc = "up" /\ ~dummy
    /\ LET r == registerEngine(engines, "lua", "loadScript") IN
        /\ engines' = r.engines
        /\ out' = Out("register", IF r.ok THEN 1 ELSE 0, 0, <<>>, NoMsg,
                      <<Str("lua")>>, "loadScript")
    /\ dummy' = TRUE
    /\ UNCHANGED <<otherVars, heap, nextOid, script, leaked, pc, proc>>

\* Another backend module registering its loader during static
\* initialisation (the order of static initialisation is unspecified).
RegisterForeign(name) ==
    /\ pc = "startup" /\ proc = "up"
    /\ LET r == registerEngine(engines, name, "foreignLoader") IN
        /\ engines' = r.engines
        /\ out' = Out("register", IF r.ok THEN 1 ELSE 0, 0, <<>>, NoMsg,
                      <<Str(name)>>, "foreignLoader")
    /\ UNCHANGED <<otherVars, heap, nextOid, dummy, script, leaked, pc, proc>>

\* End of static initialisation: main() starts.
Start ==
    /\ pc = "startup" /\ proc = "up" /\ dummy
    /\ pc' = "idle"
    /\ out' = Out("start", 0, 0, <<>>, NoMsg, <<>>, "none")
    /\ UNCHANGED <<otherVars, heap, nextOid, engines, dummy, script, leaked, proc>>

(***************************** LuaScript ***********************************)
\* The constructor returning on a failed top-level call without its
\* lua_pop(mState, 1): the error message stays at index 1.
LuaScript_ctor_keepsError(file) ==
    LET res == IF file.top = "ok" THEN 0 ELSE LUA_ERRRUN
        base == [st |-> "live", nbArgs |-> -1, stack |-> <<>>,
                 tmw |-> FALSE, defs |-> file.defs, held |-> {},
                 mState |-> "open", topErr |-> res # 0, tmwAtTop |-> FALSE,
                 hist |-> <<>>]
    IN  IF res # 0
        THEN [script |-> [base EXCEPT !.stack = <<Str("toplevel error")>>],
              log |-> <<"ERROR Failure while initializing Lua script">>]
        ELSE [script |-> [base EXCEPT !.tmw = TRUE], log |-> <<>>]

\* The constructor calling luaL_register before the top-level code: the
\* callbacks are there while the top-level code runs and stay when it fails.
LuaScript_ctor_registersFirst(file) ==
    LET res == IF file.top = "ok" THEN 0 ELSE LUA_ERRRUN
        base == [st |-> "live", nbArgs |-> -1, stack |-> <<>>,
                 tmw |-> TRUE, defs |-> file.defs, held |-> {},
                 mState |-> "open", topErr |-> res # 0, tmwAtTop |-> TRUE,
                 hist |-> <<>>]
    IN  [script |-> base,
         log |-> IF res # 0
                 THEN <<"ERROR Failure while initializing Lua script">>
                 ELSE <<>>]

\* LuaScript::LuaScript(lua_State *s): s holds the compiled chunk at index 1.
\* Gives the constructed object and what was logged.  History fields of the
\* object: topErr (the top-level code raised an error), tmwAtTop (the
\* callbacks were registered when the top-level code ran), hist (the values
\* given to push since the last prepare); mState is the state of the
\* lua_State the object owns.
LuaScript_ctor(file) ==
    LET stack0 == <<Chunk>>
        \* lua_pcall(mState, 0, 0, 0): the chunk is popped; on an error,
        \* the error message is pushed.
        res == IF file.top = "ok" THEN 0 ELSE LUA_ERRRUN
        stack1 == IF res = 0 THEN lua_pop(stack0, 1)
                  ELSE Append(lua_pop(stack0, 1), Str("toplevel error"))
        base == [st |-> "live", nbArgs |-> -1, stack |-> stack1,
                 tmw |-> FALSE, defs |-> file.defs, held |-> {},
                 mState |-> "open", topErr |-> res # 0, tmwAtTop |-> FALSE,
                 hist |-> <<>>]
    IN  IF res # 0
        THEN [script |-> [base EXCEPT !.stack = lua_pop(stack1, 1)],
              log |-> <<"ERROR Failure while initializing Lua script">>]
        ELSE \* luaL_register(mState, "tmw", callbacks) leaves the table on
             \* the stack; lua_pop(mState, 1) removes it.
             [script |-> [base EXCEPT !.tmw = TRUE,
                              !.stack = lua_pop(Append(stack1, Table), 1)],
              log |-> <<>>]

\* ResourceManager::loadFile: the buffer (here: whether there is one) and
\* what it logs when the file cannot be opened.
resman_loadFile(file) ==
    [buffer |-> file.exists,
     log |-> IF file.exists THEN <<>> ELSE <<"WARN Failed to load file">>]

\* loadScript with the status of luaL_loadstring ignored: a Script is made
\* from whatever the state holds.
loadScript_ignoresStatus(file) ==
    LET f == resman_loadFile(file) IN
    IF ~f.buffer
    THEN [script |-> NoScript, res |-> 0, log |-> f.log,
          created |-> FALSE, closes |-> 0]
    ELSE LET c == LuaScript_ctor(file) IN
         [script |-> c.script, res |-> file.load,
          log |-> <<"INFO Successfully loaded script">> \o c.log,
          created |-> TRUE, closes |-> 0]

\* loadScript falling through to lua_close(s) after a successful load: the
\* Script it returns owns a closed lua_State.
loadScript_closesOwned(file) ==
    LET f == resman_loadFile(file) IN
    IF ~f.buffer
    THEN [script |-> NoScript, res |-> 0, log |-> f.log,
          created |-> FALSE, closes |-> 0]
    ELSE LET res == file.load IN
         IF res = 0
         THEN LET c == LuaScript_ctor(file) IN
              [script |-> [c.script EXCEPT !.mState = "closed"], res |-> res,
               log |-> <<"INFO Successfully loaded script">> \o c.log,
               created |-> TRUE, closes |-> 1]
         ELSE [script |-> NoScript, res |-> res,
               log |-> IF res = LUA_ERRSYNTAX
                       THEN <<"ERROR Syntax error while loading script">>
                       ELSE <<>>,
               created |-> TRUE, closes |-> 1]

\* loadScript(filename).  Gives the Script (NoScript for NULL), the status
\* of luaL_loadstring, the log, whether luaL_newstate made a lua_State and
\* how many times loadScript called lua_close on it.
loadScript(file) ==
    LET f == resman_loadFile(file) IN
    IF ~f.buffer
    THEN [script |-> NoScript, res |-> 0, log |-> f.log,
          created |-> FALSE, closes |-> 0]
    ELSE LET res == file.load IN
         IF res = 0
         THEN LET c == LuaScript_ctor(file) IN
              [script |-> c.script, res |-> res,
               log |-> <<"INFO Successfully loaded script">> \o c.log,
               created |-> TRUE, closes |-> 0]
         ELSE \* lua_close(s); return NULL;
              [script |-> NoScript, res |-> res,
               log |-> IF res = LUA_ERRSYNTAX
                       THEN <<"ERROR Syntax error while loading script">>
                       ELSE <<>>,
               created |-> TRUE, closes |-> 1]

\* The loader of another backend: it never yields a LuaScript.
foreignLoader(file) ==
    [script |-> NoScript, res |-> 0, log |-> <<"INFO foreign backend">>,
     created |-> FALSE, closes |-> 0]

\* Script::create(engine, file): looks the loader up and delegates to it.
create(engine, file) ==
    IF engines[engine] = "none"
    THEN [script |-> NoScript, res |-> 0,
          log |-> <<"ERROR No scripting engine named">>,
          created |-> FALSE, closes |-> 0, who |-> "none"]
    ELSE LET r == IF engines[engine] = "loadScript" THEN loadScript(file)
                  ELSE foreignLoader(file)
         IN  [script |-> r.script, res |-> r.res, log |-> r.log,
              created |-> r.created, closes |-> r.closes,
              who |-> engines[engine]]

\* The server loads a script.  It holds one Script at a time: a load that
\* yields a Script is made only while it holds none; and it loads no script
\* between the prepare and the execute of a call.
Load(engine, file) ==
    /\ pc = "idle" /\ proc = "up"
    /\ script.nbArgs = -1
    /\ LET r == create(engine, file) IN
        /\ r.script.st = "live" => script.st = "none"
        /\ script' = IF r.script.st = "live" THEN r.script ELSE script
        \* a lua_State neither closed nor owned by a Script stays open
        /\ leaked' = (leaked \/ (r.created /\ r.closes = 0
                                     /\ r.script.st # "live"))
        /\ out' = [Out("load", IF r.script.st = "live" THEN 1 ELSE 0, r.res,
                      r.log, NoMsg,
                      <<Str(engine),
                        Str(IF ~file.exists THEN "missing"
                            ELSE IF file.load = LUA_ERRSYNTAX THEN "malformed"
                            ELSE IF file.load # 0 THEN "unloadable"
                            ELSE "loadable")>>,
                      r.who)
                     EXCEPT !.created = r.created, !.closes = r.closes]
    /\ UNCHANGED <<otherVars, heap, nextOid, engines, dummy, pc, proc>>

\* LuaScript::~LuaScript(): lua_close(mState).  out.closes counts the calls
\* of lua_close this lua_State has had by then.
DestroyScript ==
    /\ pc = "idle" /\ proc = "up"
    /\ script.st = "live"
    /\ script' = NoScript
    /\ out' = [Out("delete", 0, 0, <<>>, NoMsg, <<>>, "none")
                 EXCEPT !.closes = IF script.mState = "open" THEN 1 ELSE 2]
    /\ UNCHANGED <<otherVars, heap, nextOid, engines, dummy, leaked, pc, proc>>

(*************************** simulation objects ****************************)
\* The simulation creates a Thing of the given type; the allocator gives it
\* the lowest free slot, so freed storage is reused.  The server does not
\* create or destroy Things between the prepare and the execute of a call.
CreateThing(a, type) ==
    /\ pc = "idle" /\ proc = "up" /\ script.nbArgs = -1
    /\ ~heap[a].live /\ nextOid <= MaxOid
    /\ \A b \in Addr : b < a => heap[b].live
    /\ heap' = [heap EXCEPT ![a] = [live |-> TRUE, type |-> type,
                                    oid |-> nextOid]]
    /\ nextOid' = nextOid + 1
    /\ out' = Out("create", 0, 0, <<>>, NoMsg, <<>>, "none")
    /\ UNCHANGED <<otherVars, engines, dummy, script, leaked, pc, proc>>

\* The simulation destroys a Thing: its storage is freed.  Nothing tells
\* the scripts, which may still hold its address.
DestroyThing(a) ==
    /\ pc = "idle" /\ proc = "up" /\ script.nbArgs = -1
    /\ heap[a].live
    /\ heap' = [heap EXCEPT ![a] = FreeSlot]
    /\ out' = Out("destroy", 0, 0, <<>>, NoMsg, <<>>, "none")
    /\ UNCHANGED <<otherVars, nextOid, engines, dummy, script, leaked, pc, proc>>

(************************* the calling convention **************************)
\* A failed assert: the process aborts, nothing else changes.
AssertFails(op, args) ==
    /\ proc' = "aborted"
    /\ out' = Out(op, 0, 0, <<"assertion failed">>, NoMsg, args, "none")
    /\ UNCHANGED <<otherVars, heap, nextOid, engines, dummy, script, leaked, pc>>

\* lua_getglobal(mState, name): the global's value, nil when undefined.
lua_getglobal(s, name) ==
    IF name = "onTalk" /\ s.defs THEN Fn(name) ELSE Nil

\* LuaScript::prepare(name), past its assert.
prepare(s, name) ==
    [s EXCEPT !.stack = Append(s.stack, lua_getglobal(s, name)),
              !.nbArgs = 0]

prepareAssert_absent(s) == TRUE

\* Whether prepare's assert holds.
prepareAssert(s) == s.nbArgs = -1

Prepare(name) ==
    /\ pc = "idle" /\ proc = "up" /\ script.st = "live"
    /\ IF prepareAssert(script)
       THEN /\ script' = [prepare(script, name) EXCEPT !.hist = <<>>]
            /\ out' = Out("prepare", 0, 0, <<>>, NoMsg, <<Str(name)>>, "none")
            /\ UNCHANGED <<otherVars, heap, nextOid, engines, dummy, leaked, pc, proc>>
       ELSE AssertFails("prepare", <<Str(name)>>)

callAssert_absent(s) == TRUE

\* Whether the assert of push and execute holds.
callAssert(s) == s.nbArgs >= 0

\* push without ++nbArgs.
push_noCount(s, v) ==
    [s EXCEPT !.stack = Append(s.stack, v)]

\* LuaScript::push(int) and push(Thing *), past the assert: v is the pushed
\* Lua value (lua_pushinteger / lua_pushlightuserdata).
push(s, v) ==
    [s EXCEPT !.stack = Append(s.stack, v), !.nbArgs = s.nbArgs + 1]

Push(v) ==
    /\ pc = "idle" /\ proc = "up" /\ script.st = "live"
    /\ script.nbArgs < MaxArgs
    /\ IF callAssert(script)
       THEN /\ script' = [push(script, v) EXCEPT
                                !.hist = Append(script.hist, v)]
            /\ out' = Out("push", 0, 0, <<>>, NoMsg, <<>>, "none")
            /\ UNCHANGED <<otherVars, heap, nextOid, engines, dummy, leaked, pc, proc>>
       ELSE AssertFails("push", <<>>)

\* The integers the server pushes.
PushInts == {1}

\* push(int).
PushInt == \E i \in PushInts : Push(Num(i))

\* push(Thing *): the server passes the address of a Thing that exists.
PushThing == \E a \in Addr : heap[a].live /\ Push(Ptr(a, heap[a].oid))

\* The arguments of the pending call: the values above the function.
CallArgs(s) ==
    { s.stack[i] : i \in (Len(s.stack) - s.nbArgs + 1)..Len(s.stack) }

\* lua_pcall(mState, nbArgs, 1, 0): the parameters the called function
\* receives, first parameter first: the nbArgs values on top of the stack,
\* from the lowest up.
CallParams(s) ==
    [i \in 1..s.nbArgs |-> At(s.stack, Len(s.stack) - s.nbArgs + i)]

\* lua_pcall(mState, nbArgs, 1, 0) when the call is made: the function and
\* its nbArgs arguments are popped from the stack.
lua_pcall_enter(s) ==
    [s EXCEPT !.stack = SubSeq(s.stack, 1, Len(s.stack) - s.nbArgs - 1)]

\* The failure branch of execute(): s = lua_tostring(mState, 1) comes first
\* and converts a number at index 1 to a string in place; the type logged
\* is read after that.  Logged: the type and the message (s ? s : "").
failureLog(top1) ==
    LET s == lua_tolstring(top1)
        slot == lua_tostring_slot(top1)
    IN  <<"WARN Failure while calling Lua function", lua_typename(slot),
          IF s = None THEN "" ELSE s.s>>

\* execute() leaving the call context alone when the call failed.
execute_finish_keepsContext(s, res, v) ==
    LET afterCall == Append(s.stack, v)
        top1 == At(afterCall, 1)
        failed == res # 0 \/ ~lua_isnumber(top1)
    IN  [script |-> IF failed THEN [s EXCEPT !.stack = lua_pop(afterCall, 1)]
                    ELSE [s EXCEPT !.nbArgs = -1, !.stack = lua_pop(afterCall, 1)],
         ret |-> IF failed THEN 0 ELSE lua_tointeger(top1),
         log |-> IF failed THEN failureLog(top1) ELSE <<>>]

\* execute() testing only the type of the value, not the status of lua_pcall.
execute_finish_ignoresStatus(s, res, v) ==
    LET afterCall == Append(s.stack, v)
        top1 == At(afterCall, 1)
        failed == ~lua_isnumber(top1)
    IN  [script |-> [s EXCEPT !.nbArgs = -1, !.stack = lua_pop(afterCall, 1)],
         ret |-> IF failed THEN 0 ELSE lua_tointeger(top1),
         log |-> IF failed THEN failureLog(top1) ELSE <<>>]

\* LuaScript::execute() from the return of lua_pcall on: lua_pcall, which
\* took the function and its arguments off the stack, has pushed one value
\* v (the result, or the error value when res # 0).  Gives the object, the
\* value returned and the log.
execute_finish(s, res, v) ==
    LET afterCall == Append(s.stack, v)
        top1 == At(afterCall, 1)
        failed == res # 0 \/ ~lua_isnumber(top1)
    IN  [script |-> [s EXCEPT !.nbArgs = -1, !.stack = lua_pop(afterCall, 1)],
         ret |-> IF failed THEN 0 ELSE lua_tointeger(top1),
         log |-> IF failed THEN failureLog(top1) ELSE <<>>]

Finish(s, res, v) ==
    LET r == execute_finish(s, res, v) IN
    /\ script' = [r.script EXCEPT !.hist = <<>>]
    /\ pc' = "idle"
    /\ out' = Out("execute", r.ret, res, r.log, NoMsg, <<v>>, "none")
    /\ UNCHANGED <<otherVars, heap, nextOid, engines, dummy, leaked, proc>>

\* LuaScript::execute() up to the point where lua_pcall has entered the
\* script function; a value that is not a function cannot be called, and
\* lua_pcall returns LUA_ERRRUN at once.
Execute ==
    /\ pc = "idle" /\ proc = "up" /\ script.st = "live"
    /\ IF ~callAssert(script)
       THEN AssertFails("execute", <<>>)
       ELSE IF At(script.stack, Len(script.stack) - script.nbArgs).t = "function"
       THEN /\ pc' = "running"
            \* the script may keep every light userdata it is given
            /\ script' = [lua_pcall_enter(script) EXCEPT
                   !.held = script.held \cup
                       {v \in CallArgs(script) : lua_islightuserdata(v)},
                   !.hist = <<>>]
            /\ out' = Out("call", 0, 0, <<>>, NoMsg, CallParams(script),
                          "none")
            /\ UNCHANGED <<otherVars, heap, nextOid, engines, dummy, leaked, proc>>
       ELSE Finish(lua_pcall_enter(script), LUA_ERRRUN,
                   Str("attempt to call a nil value"))

\* Values a script function returns (Nil: it returns nothing).
ScriptRets == {Nil, Num(1), Str("7"), Str("done")}
\* Values a script function raises with error().
ScriptErrors == {Str("boom"), Num(7)}

\* The script function returns: lua_pcall gives 0.
ScriptReturn(v) ==
    /\ pc = "running" /\ proc = "up"
    /\ Finish(script, 0, v)

\* The script function raises an error: lua_pcall gives LUA_ERRRUN.
ScriptError(e) ==
    /\ pc = "running" /\ proc = "up"
    /\ Finish(script, LUA_ERRRUN, e)

\* The script function takes one more turn of a loop: lua_pcall has not
\* returned.  execute() sets no hook and no limit on the state (no
\* lua_sethook), so nothing but the function itself ends the call.
\* out.tick is the parity of the turns taken since the last other step.
ScriptSpin ==
    /\ pc = "running" /\ proc = "up"
    /\ out' = [Out("loop", 0, 0, <<>>, NoMsg, <<>>, "none")
                 EXCEPT !.tick = IF out.op = "loop" THEN 1 - out.tick ELSE 1]
    /\ UNCHANGED <<otherVars, heap, nextOid, engines, dummy, script, leaked,
                   pc, proc>>

(****************************** callbacks **********************************)
\* getNPC / getCharacter: the outcomes of resolving argument v to a Thing of
\* the wanted type: NULL, an address, or FAULT.  t->getType() reads the
\* storage at the address; when that storage has been freed the read is
\* undefined: it may find the wanted type, another one, or fault.
getThing(v, type) ==
    IF ~lua_islightuserdata(v) THEN {NULL}
    ELSE IF heap[v.n].live
         THEN IF heap[v.n].type # type THEN {NULL} ELSE {v.n}
         ELSE {NULL, v.n, FAULT}

getNPC(v) == getThing(v, OBJECT_NPC)

getCharacter(v) == getThing(v, OBJECT_CHARACTER)

\* An identity no Thing has: what another allocation left in freed storage.
GarbageId == MaxOid + 1

\* The identity read through a pointer (p->getPublicID(), sendTo(q, msg)):
\* that of the Thing now stored there; from freed storage the read is
\* undefined: what the destroyed Thing left behind, or what another
\* allocation has written there since.
Deref(a, v) == IF heap[a].live THEN {heap[a].oid} ELSE {v.oid, GarbageId}

\* Whether LuaMsg_* takes its abort path.
incorrectParameters(p, q, m) == p = NULL \/ q = NULL \/ m = None

\* LuaMsg_NpcMessage / LuaMsg_NpcChoice called by the script with arguments
\* a1, a2, a3 (None for an absent argument).
LuaMsg(kind, a1, a2, a3) ==
    /\ pc = "running" /\ proc = "up" /\ script.tmw
    /\ \E p \in getNPC(a1) :
       \* a fault in getNPC ends the process before getCharacter is called
       \E q \in IF p = FAULT THEN {NULL} ELSE getCharacter(a2) :
         LET m == lua_tolstring(a3)
             o == [Out("callback", 0, 0, <<>>, NoMsg, <<a1, a2, a3>>, kind)
                     EXCEPT !.p = p, !.q = q]
         IN  IF p = FAULT \/ q = FAULT
             THEN /\ proc' = "fault" /\ out' = o
             ELSE IF incorrectParameters(p, q, m)
             THEN /\ proc' = proc
                  /\ out' = [o EXCEPT !.log =
                        <<"WARN called with incorrect parameters">>]
             ELSE \* p->getPublicID() and sendTo(q, msg); on freed storage
                  \* they may also fault
                  \/ /\ ~(heap[p].live /\ heap[q].live)
                     /\ proc' = "fault" /\ out' = o
                  \/ \E npc \in Deref(p, a1), to \in Deref(q, a2) :
                       /\ proc' = proc
                       /\ out' = [o EXCEPT !.msg =
                             [kind |-> kind, npc |-> npc, to |-> to,
                              text |-> m.s]]
    /\ UNCHANGED <<otherVars, heap, nextOid, engines, dummy, script, leaked,
                   pc>>

\* Values a script can pass in an entity position and in the text position.
EntityArgs == script.held \cup {Num(1)}
TextArgs == {Str("hi"), Num(7), None}

LuaMsg_NpcMessage ==
    \E a1 \in EntityArgs, a2 \in EntityArgs, a3 \in TextArgs :
        LuaMsg("GPMSG_NPC_MESSAGE", a1, a2, a3)

LuaMsg_NpcChoice ==
    \E a1 \in EntityArgs, a2 \in EntityArgs, a3 \in TextArgs :
        LuaMsg("GPMSG_NPC_CHOICE", a1, a2, a3)

(****************************** item loader ********************************)
\* ResourceManager::exists(filename).
ResourceManager_exists(file) == file.exists

\* Script::create(engine) as ItemManager::reload calls it: a new Script of
\* the engine, NULL when no engine has that name.
Script_create(engine) == IF engines[engine] = "none" THEN NULL ELSE 1

\* Script::loadFile(filename): whether the Script has the file's code
\* afterwards.  It returns nothing.
Script_loadFile(file) == file.exists /\ file.load = 0 /\ file.top = "ok"

ItemIds == 1..NumItemIds

\* One item node of ItemManager::reload, from "int id" to "++nbItems".
\* A node without an id is skipped.  Otherwise the ItemClass of the id is
\* found in itemClasses or made, and setScript(s) stores s in it; the
\* record tells what was stored (script: s; loaded: whether the Script it
\* points to has its code) and whether the script file was found.
\* s->loadFile through a null s is a fault.
reloadItem(its, id, file) ==
    IF id = 0
    THEN [fault |-> FALSE, counted |-> FALSE, items |-> its]
    ELSE IF ~ResourceManager_exists(file)
    THEN [fault |-> FALSE, counted |-> TRUE,
          items |-> [its EXCEPT ![id] =
                        [present |-> TRUE, found |-> FALSE, script |-> NULL,
                         loaded |-> FALSE]]]
    ELSE LET s == Script_create("lua") IN
         IF s = NULL
         THEN [fault |-> TRUE, counted |-> FALSE,
               items |-> [its EXCEPT ![id].present = TRUE]]
         ELSE [fault |-> FALSE, counted |-> TRUE,
               items |-> [its EXCEPT ![id] =
                            [present |-> TRUE, found |-> TRUE, script |-> s,
                             loaded |-> Script_loadFile(file)]]]

\* ItemManager::reload() up to its loop: unsigned nbItems = 0.
ReloadBegin ==
    /\ pc = "idle" /\ proc = "up"
    /\ ~reloading
    /\ reloading' = TRUE
    /\ nbItems' = 0
    /\ UNCHANGED <<items, accountVars, heap, nextOid, engines, dummy, script,
                   leaked, pc, proc, out>>

\* ItemManager::reload reaches the next node of the item reference file: an
\* item with the given id (0: none), whose script file
\* scripts/items/<id>.lua is file.
ReloadItem(id, file) ==
    /\ pc = "idle" /\ proc = "up"
    /\ reloading /\ nbItems < MaxItems
    /\ LET r == reloadItem(items, id, file) IN
         /\ proc' = IF r.fault THEN "fault" ELSE proc
         /\ items' = r.items
         /\ nbItems' = IF r.counted THEN nbItems + 1 ELSE nbItems
    /\ UNCHANGED <<reloading, accountVars, heap, nextOid, engines, dummy,
                   script, leaked, pc, out>>

\* ItemManager::reload() after its loop: "Loaded nbItems items".
ReloadEnd ==
    /\ pc = "idle" /\ proc = "up"
    /\ reloading
    /\ reloading' = FALSE
    /\ UNCHANGED <<items, nbItems, accountVars, heap, nextOid, engines,
                   dummy, script, leaked, pc, proc, out>>

\* ItemManager::deinitialize(): every ItemClass is deleted and itemClasses
\* cleared.
Deinitialize ==
    /\ pc = "idle" /\ proc = "up"
    /\ ~reloading
    /\ items' = [id \in ItemIds |-> NoItem]
    /\ UNCHANGED <<nbItems, reloading, accountVars, heap, nextOid, engines,
                   dummy, script, leaked, pc, proc, out>>

(***************************** AccountClient *******************************)
Accounts == 1..NumAccounts
\* Addresses at which operator new places an Account.
AccountAddr == 1..NumAccounts

\* delete p.  Nothing for a null pointer.  When p points to the Account it
\* was made for, that Account is destroyed and its storage freed.
\* Otherwise p dangles and the delete is undefined: the process faults, or
\* the storage is freed a second time with nothing living there, or the
\* Account that has since been placed at the address is destroyed.
deleteAccount(hp, del, p) ==
    IF p.addr = NULL
    THEN {[acctHeap |-> hp, deleted |-> del, fault |-> FALSE]}
    ELSE IF hp[p.addr] = p.id
    THEN {[acctHeap |-> [hp EXCEPT ![p.addr] = 0],
           deleted |-> [del EXCEPT ![p.id] = @ + 1], fault |-> FALSE]}
    ELSE {[acctHeap |-> hp, deleted |-> del, fault |-> TRUE]} \cup
         (IF hp[p.addr] = 0
          THEN {[acctHeap |-> hp,
                 deleted |-> [del EXCEPT ![p.id] = @ + 1], fault |-> FALSE]}
          ELSE {[acctHeap |-> [hp EXCEPT ![p.addr] = 0],
                 deleted |-> [del EXCEPT ![hp[p.addr]] = @ + 1],
                 fault |-> FALSE]})

\* AccountClient::unsetAccount(): delete mAccount; mAccount = NULL.
unsetAccount(m, hp, del) ==
    { [mAccount |-> NullAccount, acctHeap |-> d.acctHeap,
       deleted |-> d.deleted, fault |-> d.fault] :
          d \in deleteAccount(hp, del, m) }

\* AccountClient::setAccount(acc): unsetAccount(); mAccount = acc.
setAccount(m, hp, del, acc) ==
    { [u EXCEPT !.mAccount = acc] : u \in unsetAccount(m, hp, del) }

\* The client takes outcome r of a call; after is its state when the call
\* returns.
ClientCall(r, after) ==
    /\ \A a \in Accounts : r.deleted[a] <= MaxDeletes
    /\ mAccount' = r.mAccount
    /\ acctHeap' = r.acctHeap
    /\ deleted' = r.deleted
    /\ client' = IF r.fault THEN "fault" ELSE after

\* The server makes a new Account, which operator new places at a free
\* address, and calls setAccount with it.
SetNewAccount ==
    /\ client = "alive"
    /\ nextAcct <= NumAccounts
    /\ \E addr \in AccountAddr :
         /\ acctHeap[addr] = 0
         /\ \E r \in setAccount(mAccount,
                                 [acctHeap EXCEPT ![addr] = nextAcct], deleted,
                                 [addr |-> addr, id |-> nextAcct]) :
                ClientCall(r, "alive")
    /\ given' = given \cup {nextAcct}
    /\ nextAcct' = nextAcct + 1
    /\ UNCHANGED <<itemVars, heap, nextOid, engines, dummy, script, leaked,
                   pc, proc, out>>

\* The server calls setAccount with the Account the client already holds.
SetHeldAccount ==
    /\ client = "alive"
    /\ mAccount # NullAccount
    /\ \E r \in setAccount(mAccount, acctHeap, deleted, mAccount) :
         ClientCall(r, "alive")
    /\ UNCHANGED <<given, nextAcct, itemVars, heap, nextOid, engines, dummy,
                   script, leaked, pc, proc, out>>

UnsetAccount ==
    /\ client = "alive"
    /\ \E r \in unsetAccount(mAccount, acctHeap, deleted) :
         ClientCall(r, "alive")
    /\ UNCHANGED <<given, nextAcct, itemVars, heap, nextOid, engines, dummy,
                   script, leaked, pc, proc, out>>

\* AccountClient::~AccountClient(): unsetAccount().
DestroyClient ==
    /\ client = "alive"
    /\ \E r \in unsetAccount(mAccount, acctHeap, deleted) :
         ClientCall(r, "destroyed")
    /\ UNCHANGED <<given, nextAcct, itemVars, heap, nextOid, engines, dummy,
                   script, leaked, pc, proc, out>>

\* AccountClient::AccountClient(peer) for the next connection: mAccount(NULL).
NewClient ==
    /\ client = "destroyed"
    /\ client' = "alive"
    /\ mAccount' = NullAccount
    /\ UNCHANGED <<acctHeap, nextAcct, given, deleted, itemVars, heap,
                   nextOid, engines, dummy, script, leaked, pc, proc, out>>

(**************************** specification ********************************)
Next ==
    \/ LuaRegister
    \/ \E n \in ForeignNames : RegisterForeign(n)
    \/ Start
    \/ \E e \in EngineNames, f \in Files : Load(e, f)
    \/ DestroyScript
    \/ \E a \in Addr, ty \in ThingTypes : CreateThing(a, ty)
    \/ \E a \in Addr : DestroyThing(a)
    \/ \E n \in FunctionNames : Prepare(n)
    \/ PushInt
    \/ PushThing
    \/ Execute
    \/ \E v \in ScriptRets : ScriptReturn(v)
    \/ \E e \in ScriptErrors : ScriptError(e)
    \/ ScriptSpin
    \/ LuaMsg_NpcMessage
    \/ LuaMsg_NpcChoice

Spec == Init /\ [][Next]_vars

\* What the interpreter does inside lua_pcall: it goes on running the
\* script function for as long as the function has not returned.
ScriptStep ==
    \/ \E v \in ScriptRets : ScriptReturn(v)
    \/ \E e \in ScriptErrors : ScriptError(e)
    \/ ScriptSpin
    \/ LuaMsg_NpcMessage
    \/ LuaMsg_NpcChoice

\* The server with an interpreter that never stops in the middle of a call.
SpecLive == Init /\ [][Next]_vars /\ WF_vars(ScriptStep)

\* The game server starts and loads its items.
NextItems ==
    \/ LuaRegister
    \/ \E n \in ForeignNames : RegisterForeign(n)
    \/ Start
    \/ ReloadBegin
    \/ \E id \in 0..NumItemIds, f \in Files : ReloadItem(id, f)
    \/ ReloadEnd
    \/ Deinitialize

SpecItems == Init /\ [][NextItems]_vars

\* The account server uses an AccountClient.
NextAccount ==
    \/ SetNewAccount
    \/ SetHeldAccount
    \/ UnsetAccount
    \/ DestroyClient
    \/ NewClient

SpecAccount == Init /\ [][NextAccount]_vars

(******************************* claims ************************************)
\* Whether light userdata v still refers to the Thing it was taken from.
Refers(v) == heap[v.n].live /\ heap[v.n].oid = v.oid

\* A light userdata whose Thing has been destroyed.
Stale(v) == lua_islightuserdata(v) /\ ~Refers(v)

\* The number a Lua value stands for: a number, or a decimal numeral.
Numeric(v) == v.t = "number" \/ (v.t = "string" /\ StrIsNum(v.s))
NumericValue(v) == IF v.t = "number" THEN v.n ELSE StrToNum(v.s)

\* C1: a handle minted for a Thing resolves, inside a callback, to that
\* Thing while it exists (and is of the wanted kind), and to "stale" (NULL)
\* ever after its destruction; never to a Thing that later took its storage.
C1_HandleResolvesToItsThing ==
    out.op = "callback" =>
        /\ lua_islightuserdata(out.args[1]) =>
              IF Refers(out.args[1])
              THEN heap[out.args[1].n].type = OBJECT_NPC => out.p = out.args[1].n
              ELSE out.p = NULL
        /\ lua_islightuserdata(out.args[2]) =>
              IF Refers(out.args[2])
              THEN heap[out.args[2].n].type = OBJECT_CHARACTER
                       => out.q = out.args[2].n
              ELSE out.q = NULL

\* C2: a callback called with a stale handle in either entity position
\* sends no message and causes no memory fault, whatever the other
\* arguments; and execute() returns the script's own return value.
C2_StaleHandleHarmless ==
    /\ (out.op = "callback" /\ (Stale(out.args[1]) \/ Stale(out.args[2])))
          => (out.msg = NoMsg /\ proc = "up")
    /\ (out.op = "execute" /\ proc = "up" /\ out.res = 0 /\ Numeric(out.args[1]))
          => out.ret = NumericValue(out.args[1])

\* C3: execute() always leaves the call context in the state "no call
\* prepared" (nbArgs = -1): after a success, after a non-numeric return
\* value, and after an interpreter error.
C3_ExecuteResetsContext ==
    out.op = "execute" => script.nbArgs = -1

\* C3 witness: an execute() in which the interpreter raised an error has
\* returned.
C3_Witness ==
    out.op = "execute" /\ proc = "up" /\ out.res = LUA_ERRRUN
    /\ out.args = <<Str("boom")>>

\* C4: push (of an integer or of a Thing) or execute while no call is
\* prepared is rejected: the process stops on the assert, no argument
\* reaches the interpreter and the interpreter is not entered.
C4_CallWithoutPrepareRejected ==
    [][(out'.op \in {"push", "execute"} /\ script.nbArgs = -1)
          => (proc' = "aborted" /\ script' = script /\ pc' = "idle")]_vars

\* C4 witness: a push or an execute was made with no call prepared.
C4_Witness ==
    out.op \in {"push", "execute"} /\ proc = "aborted" /\ script.nbArgs = -1

\* C5: the call context moves only Reset -prepare-> Preparing -push->
\* Preparing -execute-> Reset; a prepare made while a call is in progress
\* stops the process on the assert and leaves the pending call as it was.
C5_CallContextStateMachine ==
    [][/\ (script.st = "live" /\ script'.st = "live"
              /\ script'.nbArgs # script.nbArgs)
          => \/ script.nbArgs = -1 /\ script'.nbArgs = 0 /\ out'.op = "prepare"
             \/ script.nbArgs >= 0 /\ script'.nbArgs = script.nbArgs + 1
                   /\ out'.op = "push"
             \/ script.nbArgs >= 0 /\ script'.nbArgs = -1 /\ out'.op = "execute"
       /\ (out'.op = "prepare" /\ script.nbArgs >= 0)
          => (proc' = "aborted" /\ script' = script)
       /\ (out'.op = "prepare" /\ script.nbArgs = -1)
          => (proc' = "up" /\ script'.nbArgs = 0)]_vars

\* C5 witness: a prepare was made while a call was in progress.
C5_Witness ==
    out.op = "prepare" /\ proc = "aborted" /\ script.nbArgs >= 0

\* C6: execute() returns the script function's number only when the
\* protected call succeeded and gave a numeric value; after every other
\* outcome (undefined function, error raised, non-numeric or no return
\* value) it returns 0 and logs a failure, and the process keeps running.
C6_ExecuteResult ==
    (out.op = "execute" /\ out.log # <<"assertion failed">>) =>
        /\ proc = "up"
        /\ IF out.res = 0 /\ Numeric(out.args[1])
           THEN out.ret = NumericValue(out.args[1]) /\ out.log = <<>>
           ELSE out.ret = 0 /\ Len(out.log) > 0

\* C6 witness: execute() of a call to an undefined function has returned.
C6_Witness ==
    /\ out.op = "execute" /\ proc = "up" /\ out.ret = 0
    /\ out.args = <<Str("attempt to call a nil value")>>

\* Whether the arguments have the shape (NPC handle, Character handle,
\* string).
ExpectedShape(a) ==
    /\ lua_islightuserdata(a[1]) /\ heap[a[1].n].type = OBJECT_NPC
    /\ lua_islightuserdata(a[2]) /\ heap[a[2].n].type = OBJECT_CHARACTER
    /\ a[3].t = "string"

\* C7: a callback sends its message only when all three arguments have the
\* expected tag; otherwise (an absent argument, an integer in the string
\* position, an entity of the wrong kind) it logs a warning and sends
\* nothing.  Stated for calls whose handles refer to existing Things.
C7_TagsValidated ==
    (/\ out.op = "callback"
     /\ \A i \in 1..2 : lua_islightuserdata(out.args[i]) => Refers(out.args[i]))
    => IF ExpectedShape(out.args)
       THEN out.msg # NoMsg
       ELSE out.msg = NoMsg /\ Len(out.log) > 0

\* C8: loading a file that fails to parse gives no Script and leaves the
\* engine registry and the Script already loaded unchanged.
C8_ParseFailureFrame ==
    [][(out'.op = "load" /\ out'.res = LUA_ERRSYNTAX)
          => (out'.ret = 0 /\ engines' = engines /\ script' = script)]_vars

\* C8 witness: a load failed to parse while a Script was loaded.
C8_Witness ==
    /\ out.op = "load" /\ out.res = LUA_ERRSYNTAX /\ out.ret = 0
    /\ script.st = "live"

\* C9: every failed load (unknown engine, missing file, malformed file, any
\* other load error) gives no Script, logs the cause and leaves no
\* interpreter state behind.
C9_LoadFailureLogged ==
    out.op = "load" =>
        /\ (out.who = "none" \/ out.args[2] # Str("loadable")) => out.ret = 0
        /\ out.ret = 0 => Len(out.log) > 0
        /\ ~leaked

\* C10: registering under an engine name that is already registered fails
\* and changes nothing; no registration is ever removed or replaced, so the
\* first loader serves every later load of the name.
C10_DuplicateRegistrationRejected ==
    [][/\ \A e \in EngineNames :
              engines[e] # "none" => engines'[e] = engines[e]
       /\ (out'.op = "register" /\ engines[out'.args[1].s] # "none")
              => out'.ret = 0
       /\ (out'.op = "load" /\ out'.args[1].s = "lua")
              => out'.who = engines["lua"]]_vars

\* C10 witness: a second registration under the name lua was rejected.
C10_Witness ==
    out.op = "register" /\ out.ret = 0 /\ engines["lua"] # out.who

\* C1 witness of the defect: a handle whose Thing was destroyed resolves to
\* the Thing that now occupies the same storage.
C1_Witness ==
    /\ out.op = "callback" /\ Stale(out.args[1])
    /\ heap[out.args[1].n].live /\ out.p = out.args[1].n

\* C2 witness of the defect: a callback called with a stale handle sent a
\* message.
C2_Witness ==
    /\ out.op = "callback" /\ (Stale(out.args[1]) \/ Stale(out.args[2]))
    /\ out.msg # NoMsg

\* C7 witness of the defect: a callback called with an integer in the
\* string position, and handles of existing Things, sent a message.
C7_Witness ==
    /\ out.op = "callback" /\ out.args[3].t = "number"
    /\ Refers(out.args[1]) /\ Refers(out.args[2])
    /\ out.msg # NoMsg

\* C9 witness of the defect: a load failed with a status other than
\* LUA_ERRSYNTAX and nothing was logged.
C9_Witness ==
    out.op = "load" /\ out.res = LUA_ERRMEM /\ out.ret = 0 /\ out.log = <<>>

\* C11: handles are invalidated together with the destruction of their
\* Thing: every callback made after the destruction that is given such a
\* handle finds it stale and takes its abort path (warning, no message, no
\* fault); there is no moment after the destruction in which it resolves.
C11_InvalidatedWithDestruction ==
    out.op = "callback" =>
        \A i \in 1..2 :
            (lua_islightuserdata(out.args[i]) /\ ~Live(out.args[i].oid))
            => /\ out.log = <<"WARN called with incorrect parameters">>
               /\ out.msg = NoMsg
               /\ proc = "up"

\* C11 witness of the defect: after the destruction of a Thing, with its
\* storage still free, a callback resolved the handle to its old address.
C11_Witness ==
    /\ out.op = "callback" /\ lua_islightuserdata(out.args[1])
    /\ ~Live(out.args[1].oid) /\ ~heap[out.args[1].n].live
    /\ out.p = out.args[1].n

\* C12: when the top-level code of the file raises an error during
\* construction, the error is logged, the instance is left with no call
\* prepared, and every later prepare/push/execute cycle on it fails
\* cleanly: execute returns 0, resets the call context, and the process
\* keeps running.
C12_FailedInitCallsFail ==
    /\ (out.op = "load" /\ out.ret = 1 /\ script.topErr)
          => (script.nbArgs = -1 /\ Len(out.log) > 1)
    /\ (out.op = "execute" /\ out.log # <<"assertion failed">>
            /\ script.st = "live" /\ script.topErr)
          => (out.ret = 0 /\ script.nbArgs = -1 /\ proc = "up")

\* C12 witness of the defect: on an instance whose top-level code raised an
\* error, execute returned the number of a function the file had defined
\* before the error.
C12_Witness ==
    /\ out.op = "execute" /\ script.st = "live" /\ script.topErr
    /\ out.ret # 0

\* C13: a lua_State is closed exactly once: by loadScript when the load
\* fails (and then no Script is made), otherwise by the destructor of the
\* one Script that owns it; prepare, push, execute and the callbacks run
\* only on a state that is open.
C13_InterpreterClosedOnce ==
    /\ out.op = "load" =>
          /\ out.created => out.closes = (IF out.ret = 1 THEN 0 ELSE 1)
          /\ ~out.created => (out.closes = 0 /\ out.ret = 0)
    /\ out.op = "delete" => (out.closes = 1 /\ script.st = "none")
    /\ out.op \in {"prepare", "push", "call", "execute", "callback"}
          => (script.st = "live" /\ script.mState = "open")
    /\ script.st = "live" => script.mState = "open"
    /\ ~leaked

\* C13 witness: a Script made by a successful load has been destroyed.
C13_Witness ==
    out.op = "delete" /\ out.closes = 1 /\ script.st = "none"


\* C14: while a call is prepared, nbArgs is the number of push calls made
\* since the prepare, and the function execute calls receives exactly the
\* pushed values, first pushed first, whatever mix of integers and Things
\* was pushed.
C14_ArgumentsInPushOrder ==
    [][/\ (script'.st = "live" /\ pc' = "idle" /\ script'.nbArgs >= 0)
             => script'.nbArgs = Len(script'.hist)
       /\ out'.op = "call" => out'.args = script.hist]_vars

\* C14 witness: a function is called with a Thing pushed first and an integer
\* pushed second.
C14_Witness ==
    /\ out.op = "call" /\ script.nbArgs = 2 /\ Len(out.args) = 2
    /\ lua_islightuserdata(out.args[1]) /\ out.args[2].t = "number"

\* C17: the depth of the Lua stack follows the call context, whether the
\* constructor's top-level call succeeded or failed: between the calls of
\* the server it is 0 while no call is prepared and 1 + nbArgs while one
\* is; so the value execute reads at index 1 is the result or error value
\* of the call it has just made: the value it returns, or the type it logs,
\* is that value's.
C17_StackDepthFollowsContext ==
    /\ (script.st = "live" /\ pc = "idle") =>
          Len(script.stack) = (IF script.nbArgs = -1 THEN 0
                               ELSE 1 + script.nbArgs)
    /\ (out.op = "execute" /\ out.log # <<"assertion failed">>) =>
          IF out.log = <<>>
          THEN Numeric(out.args[1]) /\ out.ret = NumericValue(out.args[1])
          ELSE out.log[2] = lua_typename(lua_tostring_slot(out.args[1]))

\* C17 witness: on an instance whose top-level code failed, a call has
\* returned the number its function gave, and the stack is empty again.
C17_Witness ==
    /\ out.op = "execute" /\ script.st = "live" /\ script.topErr
    /\ out.args = <<Num(1)>> /\ out.ret = 1 /\ script.stack = <<>>


\* C18: the callbacks are registered under "tmw" only after the top-level
\* code has run without error: they are not there while it runs, an instance
\* has them exactly when its top-level code succeeded, and a callback (and
\* so a message) happens only inside a call on such an instance.
C18_CallbacksAfterTopLevel ==
    /\ script.st = "live" =>
          /\ ~script.tmwAtTop
          /\ script.tmw <=> ~script.topErr
    /\ out.op = "callback" =>
          (script.st = "live" /\ ~script.topErr /\ pc = "running")
    /\ out.msg # NoMsg => ~script.topErr

\* C18 witness: a function of an instance whose top-level code failed is
\* running, and the instance has no callbacks.
C18_Witness ==
    /\ pc = "running" /\ script.st = "live" /\ script.topErr
    /\ ~script.tmw /\ out.op = "call"


\* C15: an item whose script file is found but whose script cannot be had
\* (no engine "lua", or the file does not load) is given no script, and the
\* loader goes on to the items after it without a fault.
C15_FailedItemScriptAbsent ==
    /\ \A id \in ItemIds :
          (items[id].present /\ items[id].found /\ ~items[id].loaded)
              => items[id].script = NULL
    /\ proc # "fault"

\* C15 witness: a reload that counted two items has ended, and an item whose
\* script file was found and did not load is in itemClasses.
C15_Witness ==
    /\ ~reloading /\ nbItems >= 2 /\ proc = "up"
    /\ \E id \in ItemIds :
          items[id].present /\ items[id].found /\ ~items[id].loaded

\* C19: whatever setAccount, unsetAccount and destructor calls were made,
\* the account the client holds is none or one that has not been deleted,
\* every other account it was given has been deleted exactly once, and no
\* delete went through a dangling pointer.
C19_AccountDeletedOnce ==
    /\ mAccount # NullAccount =>
          (acctHeap[mAccount.addr] = mAccount.id /\ deleted[mAccount.id] = 0)
    /\ \A a \in given : a # mAccount.id => deleted[a] = 1
    /\ client # "fault"

\* C19 witness of the defect: setAccount was called with the account the
\* client held, and the client now holds an Account that a delete through
\* the dangling pointer destroyed.
C19_Witness ==
    /\ client = "alive" /\ mAccount # NullAccount
    /\ deleted[mAccount.id] = 1 /\ acctHeap[mAccount.addr] = 0
    /\ \E a \in given : a # mAccount.id /\ deleted[a] = 1

\* C16: every execute() returns: a call that has entered its script function
\* comes back to the server (or the process has stopped on a fault).
C16_ExecuteReturns ==
    (pc = "running" /\ proc = "up") ~> (pc = "idle" \/ proc # "up")

\* C16 witness: a script function has gone round its loop and is still
\* running.
C16_Witness ==
    pc = "running" /\ proc = "up" /\ out.op = "loop" /\ out.tick = 0

=============================================================================
